---- MODULE Spec2Model ----
(***************************************************************************)
(* Model of the nodes tab of meshtui (src/src/tabs/nodes.rs): the node     *)
(* registry, the projected row set, the List/Detail/Help display mode, the  *)
(* row/page cursor, the graph selector, the detail view's chart, the shared *)
(* viewport capacity and preferences, and the traceroute request.           *)
(*                                                                         *)
(* One action per method of NodesTab.  The registry and the telemetry       *)
(* stores are written by the packet-ingestion code, which is outside this   *)
(* file; Upsert, Heard, NeighborInfo and Telemetry stand for it.            *)
(*                                                                         *)
(* Spec is the tab under its key handlers, with nobody else holding the     *)
(* shared cells.  SpecDetail, SpecTabs, SpecStore and SpecLocks start from   *)
(* the same state and follow the part of the program their name says;       *)
(* SpecProject and SpecGraph apply run() and make_graph to every registry    *)
(* and every telemetry store within the bounds; SpecRows applies the List   *)
(* view's row projection to every choice of timestamps, positions and clock *)
(* readings within the bounds.                                              *)
(***************************************************************************)
EXTENDS Integers, Sequences, FiniteSets, TLC

\* ------------------------------------------------------------------ bounds
\* Node ids are 1..MaxNodes (0 is the default of selected_node_id).
MaxNodes == 2
\* last_seen timestamps are 0..MaxTime.
MaxTime == 0
\* Heights of the rendered area are 0..MaxHeight.
MaxHeight == 1

\* consts::MAX_MSG_RETENTION, the capacity of a node's telemetry store.
MAX_MSG_RETENTION == 2
\* Samples pushed to one node's telemetry store: at most MaxInserted.
MaxInserted == 3
\* Readings of a signed metric are -MaxReading..MaxReading.
MaxReading == 2

\* last_seen timestamps of the registries run() is applied to are 0..MaxStamp.
MaxStamp == 2
MaxCoord == 1

NodeIds == 1..MaxNodes
Readings == (0 - MaxReading)..MaxReading
Times == 0..MaxTime
Heights == 0..MaxHeight

\* ------------------------------------------------------------ value domains
\* Option<usize>::None of TableState::selected().
None == -1
\* A selected index that wrapped below zero (usize arithmetic without
\* overflow checks).  It stands for the whole class of indexes near
\* usize::MAX: every handler treats them alike (they compare above every
\* length and page size), so one representative is kept.
USIZE_MAX == 1000000

List == "List"
Detail == "Detail"
Help == "Help"
DisplayMode == {List, Detail, Help}

Running == "Running"
Exiting == "Exiting"

\* enum DisplayedGraph, in the order of its declaration.
DisplayedGraph ==
    <<"Battery", "Voltage", "AirUtilization", "ChannelUtilization", "RSSI", "SNR",
      "Temperature", "RelativeHumidity", "BarometricPressure", "GasResistance">>

Metrics == {DisplayedGraph[i] : i \in 1..Len(DisplayedGraph)}

\* The state of a tokio RwLock as this tab meets it: free, or held by some other
\* task for reading, or for writing.
Free == "free"
Reading == "read"
Writing == "write"
LockStates == {Free, Reading, Writing}

VARIABLES
    node_list,          \* HashMap<u32, ComprehensiveNode>, as the sequence of its
                        \* values in the map's iteration order
    table_state,        \* TableState: the selected index, or None
    table_contents,     \* Vec<ComprehensiveNode>: the projected row set
    scrollbar_state,    \* ScrollbarState: its position
    prefs,              \* the tab's copy of the preferences
    display_mode,
    selected_node_id,
    page_size,          \* the tab's copy of PAGE_SIZE
    PAGE_SIZE,          \* crate::PAGE_SIZE, the shared viewport capacity
    PREFERENCES,        \* crate::PREFERENCES, the shared preferences
    my_node_id,         \* the local node's number
    which_graph,        \* DisplayedGraph: the metric the detail chart shows
    node_info_user,     \* the ids whose record has node_info.user = Some(..)
    neighbors,          \* per node id, the node_id of each entry of `neighbors`
    timeseries,         \* per node id, the samples of `timeseries`, oldest first
    inserted,           \* per node id, every sample ever pushed to `timeseries`
    chart,              \* the data make_graph handed to the Chart widget last
    axes,               \* the bounds make_graph gave the chart's two axes last
    rows,               \* the rows render handed to the Table widget last
    position,           \* per node id, node_info.position: <<>> for None, else
                        \* <<p>> with p.latitude_i and p.longitude_i
    last_heard,         \* per node id, node_info.last_heard
    get_secs,           \* util::get_secs(): what the clock answers to the
                        \* first, second, ... call of one render pass
    PAGE_SIZE_lock,     \* who else holds the RwLock of PAGE_SIZE
    PREFERENCES_lock,   \* who else holds the RwLock of PREFERENCES
    blocked,            \* TRUE while run() is suspended at PAGE_SIZE.read().await
    panicked,           \* TRUE once a handler has aborted (index out of bounds,
                        \* arithmetic overflow, unwrap of None or Err): the
                        \* process is gone
    last                \* what the most recent call was, what it returned and what
                        \* it handed to the outbound channel and to the log

vars == <<node_list, table_state, table_contents, scrollbar_state, prefs,
          display_mode, selected_node_id, page_size, PAGE_SIZE, PREFERENCES,
          my_node_id, which_graph, node_info_user, neighbors, timeseries,
          inserted, chart, axes, rows, position, last_heard, get_secs,
          PAGE_SIZE_lock, PREFERENCES_lock, blocked, panicked, last>>

\* The fields of NodesTab that the key handlers may write.
view == <<table_state, scrollbar_state, display_mode, selected_node_id>>
\* The fields of the registry's records that the row set never shows.
details == <<node_info_user, neighbors, timeseries, inserted>>
\* What render hands to the widgets it draws.
widgets == <<chart, axes, rows>>
\* What the rows of the list show besides the registry's records, and the clock.
shown == <<position, last_heard, get_secs>>
\* The locks of the shared cells, and whether run() waits for one.
locks == <<PAGE_SIZE_lock, PREFERENCES_lock, blocked>>
\* What the row, page, mode and function key handlers never write.
data == <<node_list, table_contents, prefs, page_size, PAGE_SIZE, PREFERENCES,
          my_node_id, which_graph, details, widgets, shown, locks>>

\* ------------------------------------------------------------------ records
ComprehensiveNode(id, last_seen, via_mqtt) ==
    [id |-> id, last_seen |-> last_seen, via_mqtt |-> via_mqtt]

\* One sample of a node's telemetry: TimeSeriesData, its metrics as a function of
\* the graph that shows them.  A sample carries the reading of one metric; the
\* others are at their Default::default(), zero.  Readings are integers; what is
\* kept of an f32 or f64 is its sign and its order.
TimeSeriesData(timestamp, metric, value) ==
    [timestamp |-> timestamp,
     reading |-> [m \in Metrics |-> IF m = metric THEN value ELSE 0]]

\* The bounds of the two axes of a chart without data: [0.0, 0.0] each.
NoAxes == [x |-> <<0, 0>>, y |-> <<0, 0>>]

\* Position::default(): both coordinates zero.
DefaultPosition == [latitude_i |-> 0, longitude_i |-> 0]

\* Preferences::default(): an empty `initialized` string.
DefaultPreferences == [initialized |-> FALSE, show_mqtt |-> FALSE]

\* What a call reports: its name, what it returns (the Mode of escape, the tab of
\* prev_tab and next_tab), the packets handed to util::send_to_radio, the number
\* of error! and info! lines it logged, and what it started from: the display
\* mode, the selection, the selected node id, the graph, the shared viewport
\* capacity, and its argument (the area height of render, the tab of prev_tab and
\* next_tab).
Call(op, ret, handed, errors, infos) ==
    [op |-> op, ret |-> ret, handed |-> handed, errors |-> errors, infos |-> infos,
     mode |-> display_mode, selected |-> table_state, node_id |-> selected_node_id,
     graph |-> which_graph, capacity |-> PAGE_SIZE, height |-> None, tab |-> "none"]

Quiet(op) == Call(op, "none", <<>>, 0, 0)

\* ------------------------------------------------------------ usize helpers
\* usize::saturating_sub.
SaturatingSub(a, b) ==
    IF a = USIZE_MAX THEN USIZE_MAX ELSE IF a < b THEN 0 ELSE a - b

\* usize::saturating_add.
SaturatingAdd(a, b) ==
    IF a = USIZE_MAX THEN USIZE_MAX ELSE a + b

\* Vec::reverse.
Reverse(s) == [i \in 1..Len(s) |-> s[Len(s) + 1 - i]]

\* One step of a stable ascending sort on last_seen: x, which came after every
\* element of the sorted prefix s, goes behind the elements that are not greater.
InsertStable(s, x) ==
    LET k == Cardinality({i \in 1..Len(s) : s[i].last_seen <= x.last_seen})
    IN  SubSeq(s, 1, k) \o <<x>> \o SubSeq(s, k + 1, Len(s))

RECURSIVE SortByLastSeen(_)
\* Vec::sort_by(|a, b| a.last_seen.cmp(&b.last_seen)): stable, ascending.
SortByLastSeen(s) ==
    IF s = <<>> THEN <<>>
    ELSE InsertStable(SortByLastSeen(SubSeq(s, 1, Len(s) - 1)), s[Len(s)])

\* The filter of run() letting every record through.
NotViaMqtt_all(cn) == TRUE

NotViaMqtt(cn) == ~cn.via_mqtt

\* run() without the final reverse(): oldest first.
Project_ascending(nodes, p) ==
    LET kept == IF ~p.show_mqtt THEN SelectSeq(nodes, NotViaMqtt) ELSE nodes
    IN  SortByLastSeen(kept)

\* The row set run() builds from the registry under the given preferences.
Project(nodes, p) ==
    LET kept == IF ~p.show_mqtt THEN SelectSeq(nodes, NotViaMqtt) ELSE nodes
    IN  Reverse(SortByLastSeen(kept))

\* NodesTab::default(), with what the application sets up before the tab is
\* used: the viewport capacity not yet measured, the preferences loaded, the
\* local node's number known (it is node 1; its record may not be in the
\* registry yet).
Init ==
    /\ node_list = <<>>
    /\ table_state = None
    /\ table_contents = <<>>
    /\ scrollbar_state = 0
    /\ prefs = DefaultPreferences
    /\ display_mode = List
    /\ selected_node_id = 0
    /\ page_size = 0
    /\ PAGE_SIZE = 0
    /\ PREFERENCES \in [initialized : {TRUE}, show_mqtt : BOOLEAN]
    /\ my_node_id = 1
    /\ which_graph = "Battery"
    /\ node_info_user = {}
    /\ neighbors = [id \in NodeIds |-> <<>>]
    /\ timeseries = [id \in NodeIds |-> <<>>]
    /\ inserted = [id \in NodeIds |-> <<>>]
    /\ chart = <<>>
    /\ axes = NoAxes
    /\ rows = <<>>
    /\ position = [id \in NodeIds |-> <<>>]
    /\ last_heard = [id \in NodeIds |-> 0]
    /\ get_secs = [k \in 1..MaxNodes |-> 0]
    /\ PAGE_SIZE_lock = Free
    /\ PREFERENCES_lock = Free
    /\ blocked = FALSE
    /\ panicked = FALSE
    /\ last = Quiet("new")

\* --------------------------------------------------------------- environment
Ids(nodes) == {nodes[i].id : i \in 1..Len(nodes)}

MaxLastSeen(nodes) ==
    IF nodes = <<>> THEN 0
    ELSE CHOOSE t \in Times :
            /\ \E i \in 1..Len(nodes) : nodes[i].last_seen = t
            /\ \A i \in 1..Len(nodes) : nodes[i].last_seen <= t

\* The registry's upsert on a node-info packet: the record of `id` is created
\* (anywhere in the map's iteration order) or updated in place, with its identity
\* payload, stamped with the current time, which never runs backwards.
Upsert ==
    /\ ~panicked
    /\ \E id \in NodeIds, t \in Times, m \in BOOLEAN :
        /\ t >= MaxLastSeen(node_list)
        /\ IF id \in Ids(node_list)
           THEN node_list' = [i \in 1..Len(node_list) |->
                                IF node_list[i].id = id
                                THEN ComprehensiveNode(id, t, m)
                                ELSE node_list[i]]
           ELSE \E p \in 0..Len(node_list) :
                    node_list' = SubSeq(node_list, 1, p)
                                 \o <<ComprehensiveNode(id, t, m)>>
                                 \o SubSeq(node_list, p + 1, Len(node_list))
        /\ node_info_user' = node_info_user \cup {id}
    /\ last' = Quiet("upsert")
    /\ UNCHANGED <<view, table_contents, prefs, page_size, PAGE_SIZE, PREFERENCES,
                   my_node_id, which_graph, neighbors, timeseries, inserted, widgets, shown,
                   locks, panicked>>


\* The upsert that creates the first record of the registry.
FirstUpsert == node_list = <<>> /\ Upsert

\* A record comes into the registry with no identity payload (from a packet that
\* is not a node-info packet).
Heard ==
    /\ ~panicked
    /\ \E id \in NodeIds \ Ids(node_list), p \in 0..Len(node_list) :
            node_list' = SubSeq(node_list, 1, p)
                         \o <<ComprehensiveNode(id, MaxLastSeen(node_list), FALSE)>>
                         \o SubSeq(node_list, p + 1, Len(node_list))
    /\ last' = Quiet("heard")
    /\ UNCHANGED <<view, table_contents, prefs, page_size, PAGE_SIZE, PREFERENCES,
                   my_node_id, which_graph, details, widgets, shown, locks, panicked>>

\* A neighbor report of a registered node: its `neighbors` become the reported
\* ones, whether the registry knows them or not.
NeighborInfo ==
    /\ ~panicked
    /\ \E id \in Ids(node_list), nb \in NodeIds :
            neighbors' = [neighbors EXCEPT ![id] = <<nb>>]
    /\ last' = Quiet("neighbor_info")
    /\ UNCHANGED <<view, node_list, table_contents, prefs, page_size, PAGE_SIZE,
                   PREFERENCES, my_node_id, which_graph, node_info_user, timeseries,
                   inserted, widgets, shown, locks, panicked>>

\* push_back on a buffer that never drops anything.
push_back_unbounded(buffer, d) == Append(buffer, d)

\* CircularBuffer::push_back: a full buffer drops its oldest element.
push_back(buffer, d) ==
    IF Len(buffer) >= MAX_MSG_RETENTION
    THEN SubSeq(buffer, Len(buffer) - MAX_MSG_RETENTION + 2, Len(buffer)) \o <<d>>
    ELSE Append(buffer, d)

\* The metrics the telemetry packets of the model report: an unsigned one
\* (battery_level is a u32) and a signed one.
ReportedMetrics == {"Battery", "SNR"}
\* The nodes that report telemetry.
TelemetryNodes == {1}

\* A telemetry packet of a registered node: one sample, stamped with the time
\* of capture (later than every earlier sample's), goes into its store.
Telemetry ==
    /\ ~panicked
    /\ \E id \in TelemetryNodes \cap Ids(node_list),
          metric \in ReportedMetrics, value \in Readings :
        /\ Len(inserted[id]) < MaxInserted
        /\ metric = "Battery" => value >= 0
        /\ LET d == TimeSeriesData(Len(inserted[id]) + 1, metric, value)
           IN  /\ timeseries' = [timeseries EXCEPT ![id] = push_back(@, d)]
               /\ inserted' = [inserted EXCEPT ![id] = Append(@, d)]
    /\ last' = Quiet("telemetry")
    /\ UNCHANGED <<view, node_list, table_contents, prefs, page_size, PAGE_SIZE,
                   PREFERENCES, my_node_id, which_graph, node_info_user, neighbors,
                   widgets, shown, locks, panicked>>

\* Another task takes or gives back the RwLock of PAGE_SIZE, for reading or for
\* writing.
PAGE_SIZE_contention ==
    /\ ~panicked
    /\ \E s \in LockStates \ {PAGE_SIZE_lock} :
        /\ PAGE_SIZE_lock = Free \/ s = Free
        /\ PAGE_SIZE_lock' = s
    /\ last' = Quiet("lock")
    /\ UNCHANGED <<view, node_list, table_contents, prefs, page_size, PAGE_SIZE,
                   PREFERENCES, my_node_id, which_graph, details, widgets, shown,
                   PREFERENCES_lock, blocked, panicked>>

\* Another task takes or gives back the RwLock of PREFERENCES.
PREFERENCES_contention ==
    /\ ~panicked
    /\ \E s \in LockStates \ {PREFERENCES_lock} :
        /\ PREFERENCES_lock = Free \/ s = Free
        /\ PREFERENCES_lock' = s
    /\ last' = Quiet("lock")
    /\ UNCHANGED <<view, node_list, table_contents, prefs, page_size, PAGE_SIZE,
                   PREFERENCES, my_node_id, which_graph, details, widgets, shown,
                   PAGE_SIZE_lock, blocked, panicked>>

\* ------------------------------------------------------------------- NodesTab
\* No method of the tab runs once the process has aborted, nor while run() is
\* suspended: the event loop that calls them is the task that waits.
Ready == ~panicked /\ ~blocked

\* A handler aborts: nothing else happens any more.
Panic(op) ==
    /\ panicked' = TRUE
    /\ last' = Quiet(op)
    /\ UNCHANGED <<view, data>>

\* DisplayedGraph::prev with the Voltage arm answering Voltage.
DisplayedGraph_prev_stuck_at_voltage(g) ==
    CASE g = "Battery" -> "GasResistance"
      [] g = "Voltage" -> "Voltage"
      [] g = "AirUtilization" -> "Voltage"
      [] g = "ChannelUtilization" -> "AirUtilization"
      [] g = "RSSI" -> "ChannelUtilization"
      [] g = "SNR" -> "RSSI"
      [] g = "Temperature" -> "SNR"
      [] g = "RelativeHumidity" -> "Temperature"
      [] g = "BarometricPressure" -> "RelativeHumidity"
      [] g = "GasResistance" -> "BarometricPressure"

\* DisplayedGraph::prev.
DisplayedGraph_prev(g) ==
    CASE g = "Battery" -> "GasResistance"
      [] g = "Voltage" -> "Battery"
      [] g = "AirUtilization" -> "Voltage"
      [] g = "ChannelUtilization" -> "AirUtilization"
      [] g = "RSSI" -> "ChannelUtilization"
      [] g = "SNR" -> "RSSI"
      [] g = "Temperature" -> "SNR"
      [] g = "RelativeHumidity" -> "Temperature"
      [] g = "BarometricPressure" -> "RelativeHumidity"
      [] g = "GasResistance" -> "BarometricPressure"

\* DisplayedGraph::next with the last arm going nowhere: no wrap to Battery.
DisplayedGraph_next_no_wrap(g) ==
    IF g = "GasResistance" THEN "GasResistance"
    ELSE DisplayedGraph[1 + CHOOSE i \in 1..Len(DisplayedGraph) : DisplayedGraph[i] = g]

\* DisplayedGraph::next.
DisplayedGraph_next(g) ==
    CASE g = "Battery" -> "Voltage"
      [] g = "Voltage" -> "AirUtilization"
      [] g = "AirUtilization" -> "ChannelUtilization"
      [] g = "ChannelUtilization" -> "RSSI"
      [] g = "RSSI" -> "SNR"
      [] g = "SNR" -> "Temperature"
      [] g = "Temperature" -> "RelativeHumidity"
      [] g = "RelativeHumidity" -> "BarometricPressure"
      [] g = "BarometricPressure" -> "GasResistance"
      [] g = "GasResistance" -> "Battery"

\* The application's tabs (app::MenuTabs), a cycle under prev() and next().
MenuTabs == <<"Messages", "Nodes", "Config">>
Tabs == {MenuTabs[i] : i \in 1..Len(MenuTabs)}
TabIndex(tab) == CHOOSE i \in 1..Len(MenuTabs) : MenuTabs[i] = tab
MenuTabs_prev(tab) ==
    MenuTabs[IF TabIndex(tab) = 1 THEN Len(MenuTabs) ELSE TabIndex(tab) - 1]
MenuTabs_next(tab) ==
    MenuTabs[IF TabIndex(tab) = Len(MenuTabs) THEN 1 ELSE TabIndex(tab) + 1]

\* prev_tab stepping the graph back in every display mode.
prev_tab_graph_in_any_mode(mode, g) == DisplayedGraph_prev(g)

\* The graph prev_tab leaves in which_graph.
prev_tab_graph(mode, g) == IF mode = Detail THEN DisplayedGraph_prev(g) ELSE g

\* prev_tab(app_tab): its return value is last.ret.
prev_tab ==
    /\ Ready
    /\ \E app_tab \in Tabs :
        /\ which_graph' = prev_tab_graph(display_mode, which_graph)
        /\ last' = [Call("prev_tab",
                         IF display_mode = Detail THEN app_tab
                         ELSE MenuTabs_prev(app_tab), <<>>, 0, 0)
                    EXCEPT !.tab = app_tab]
    /\ UNCHANGED <<view, node_list, table_contents, prefs, page_size, PAGE_SIZE,
                   PREFERENCES, my_node_id, details, widgets, shown, locks, panicked>>

\* The graph next_tab leaves in which_graph.
next_tab_graph(mode, g) == IF mode = Detail THEN DisplayedGraph_next(g) ELSE g

\* next_tab(app_tab): its return value is last.ret.
next_tab ==
    /\ Ready
    /\ \E app_tab \in Tabs :
        /\ which_graph' = next_tab_graph(display_mode, which_graph)
        /\ last' = [Call("next_tab",
                         IF display_mode = Detail THEN app_tab
                         ELSE MenuTabs_next(app_tab), <<>>, 0, 0)
                    EXCEPT !.tab = app_tab]
    /\ UNCHANGED <<view, node_list, table_contents, prefs, page_size, PAGE_SIZE,
                   PREFERENCES, my_node_id, details, widgets, shown, locks, panicked>>

\* run() without `self.page_size = *PAGE_SIZE.read().await`.
run_projection_keeps_page_size ==
    /\ page_size' = page_size
    /\ table_contents' = Project(node_list, prefs')

\* run() from `self.page_size = ...` on.
run_projection ==
    /\ page_size' = PAGE_SIZE
    /\ table_contents' = Project(node_list, prefs')

\* run(): the preferences are copied once, from PREFERENCES, while the tab's copy
\* has an empty `initialized`: try_read().unwrap() aborts when a writer holds
\* PREFERENCES.  PAGE_SIZE.read().await waits while a writer holds PAGE_SIZE.
run ==
    /\ Ready
    /\ IF ~prefs.initialized /\ PREFERENCES_lock = Writing
       THEN Panic("run")
       ELSE /\ prefs' = IF ~prefs.initialized THEN PREFERENCES ELSE prefs
            /\ IF PAGE_SIZE_lock = Writing
               THEN blocked' = TRUE /\ UNCHANGED <<page_size, table_contents>>
               ELSE blocked' = FALSE /\ run_projection
            /\ last' = Quiet("run")
            /\ UNCHANGED <<view, node_list, PAGE_SIZE, PREFERENCES, my_node_id,
                           which_graph, details, widgets, shown, PAGE_SIZE_lock,
                           PREFERENCES_lock, panicked>>

\* run() goes on after PAGE_SIZE.read().await, once no writer holds PAGE_SIZE.
run_resumed ==
    /\ ~panicked /\ blocked
    /\ PAGE_SIZE_lock # Writing
    /\ blocked' = FALSE
    /\ prefs' = prefs
    /\ run_projection
    /\ last' = Quiet("run")
    /\ UNCHANGED <<view, node_list, PAGE_SIZE, PREFERENCES, my_node_id,
                   which_graph, details, widgets, shown, PAGE_SIZE_lock, PREFERENCES_lock,
                   panicked>>

\* make_graph's match on which_graph: the (timestamp, metric) pairs of the
\* samples, in the order of the store.
make_graph_pairs(series, graph) ==
    [i \in 1..Len(series) |-> <<series[i].timestamp, series[i].reading[graph]>>]

\* The closure of data.retain: |(_, datum)| datum > &0.0.
make_graph_retain(pair) == pair[2] > 0

\* The data make_graph hands to the Chart widget.
make_graph(series, graph) ==
    SelectSeq(make_graph_pairs(series, graph), make_graph_retain)

\* The value render leaves in PAGE_SIZE for an area of the given height.
render_page_size(height) ==
    IF PAGE_SIZE # height /\ PAGE_SIZE_lock = Free THEN height ELSE PAGE_SIZE

\* self.node_list.get(&id): whether the registry has a record of id.
Registered(id) == id \in Ids(node_list)

\* The two unwraps at the top of get_details_for_node (the second is repeated at
\* the top of make_graph) find their records.
get_details_for_node_records == Registered(my_node_id) /\ Registered(selected_node_id)

\* The neighbor rows: every neighbor of the selected node has a record, and the
\* record has an identity payload.
get_details_for_node_neighbors ==
    \A i \in 1..Len(neighbors[selected_node_id]) :
        LET nb == neighbors[selected_node_id][i]
        IN  Registered(nb) /\ nb \in node_info_user

\* Iterator::min_by and max_by over partial_cmp, on values that are never NaN.
Least(S) == CHOOSE v \in S : \A w \in S : v <= w
Greatest(S) == CHOOSE v \in S : \A w \in S : w <= v

\* The axis bounds of make_graph with every lower bound left at 0.0.
make_graph_bounds_from_zero(pairs) ==
    LET xs == {pairs[i][1] : i \in 1..Len(pairs)}
        ys == {pairs[i][2] : i \in 1..Len(pairs)}
    IN  IF pairs = <<>> THEN NoAxes
        ELSE [x |-> <<0, Greatest(xs)>>, y |-> <<0, Greatest(ys)>>]

\* The axis bounds make_graph computes from the pairs it kept: the least and the
\* greatest timestamp, the least and the greatest value, and unwrap_or(&0.0)
\* where there is no pair.
make_graph_bounds(pairs) ==
    LET xs == {pairs[i][1] : i \in 1..Len(pairs)}
        ys == {pairs[i][2] : i \in 1..Len(pairs)}
    IN  IF pairs = <<>> THEN NoAxes
        ELSE [x |-> <<Least(xs), Greatest(xs)>>, y |-> <<Least(ys), Greatest(ys)>>]

\* Option::unwrap_or_default on node_info.position.
position_or_default(p) == IF p = <<>> THEN DefaultPosition ELSE p[1]

\* my_location of the List view: the local node's position, if its record is in
\* the registry, carries a position, and neither coordinate of it is zero.
my_location ==
    IF /\ Registered(my_node_id)
       /\ position[my_node_id] # <<>>
       /\ position[my_node_id][1].latitude_i # 0
       /\ position[my_node_id][1].longitude_i # 0
    THEN position[my_node_id]
    ELSE <<>>

Abs(n) == IF n < 0 THEN 0 - n ELSE n

\* geoutils' Location::distance_to(..).ok(): a distance that is zero between
\* equal locations only, or None when the iteration does not converge.
distance_to(a, b, converges) ==
    IF converges
    THEN <<Abs(a.latitude_i - b.latitude_i) + Abs(a.longitude_i - b.longitude_i)>>
    ELSE <<>>

\* distance_str of a row: <<>> for the empty string, <<d>> for "{d:.3}km".  The
\* row's position is position.unwrap_or_default(), compared with nothing.
distance_str(cn, converges) ==
    LET station == position_or_default(position[cn.id])
    IN  IF my_location # <<>>
        THEN distance_to(station, my_location[1], converges)
        ELSE <<>>

\* The "Unknown" of the elapsed-time columns.
Unknown == None

\* ni_lastheard_since_string and lastupdate_since_string of a row: the seconds
\* pretty_duration is given, or Unknown.
since_string(now_secs, timestamp) ==
    LET since == SaturatingSub(now_secs, timestamp)
    IN  IF since > 0 /\ since # now_secs THEN since ELSE Unknown

\* The closure of the List view that makes the Row of a record of the row set:
\* it reads the clock itself.  now_secs is kept with the row.
Row(cn, now_secs, converges) ==
    [id |-> cn.id,
     distance |-> distance_str(cn, converges),
     now_secs |-> now_secs,
     ni_lastheard_since |-> since_string(now_secs, last_heard[cn.id]),
     lastupdate_since |-> since_string(now_secs, cn.last_seen)]

\* The rows of the List view: the closure called on each record of the row set
\* in turn, the k-th call being the k-th to read the clock.  `converging` are
\* the rows for which distance_to converges.
render_rows(converging) ==
    [k \in 1..Len(table_contents) |->
        Row(table_contents[k], get_secs[k], k \in converging)]

\* The rows for which the List view calls distance_to: all of them, if it is
\* drawing and my_location is Some.
distance_rows ==
    IF display_mode = List /\ my_location # <<>>
    THEN 1..Len(table_contents)
    ELSE {}

\* What render draws in the display mode: nothing the model keeps in Help; the
\* rows in List; in Detail get_details_for_node, which aborts at its unwraps,
\* after make_graph has drawn the chart if it gets that far.
render_mode(converging) ==
    CASE display_mode = Detail ->
            /\ rows' = rows
            /\ IF get_details_for_node_records
               THEN /\ chart' = make_graph(timeseries[selected_node_id], which_graph)
                    /\ axes' = make_graph_bounds(chart')
                    /\ panicked' = ~get_details_for_node_neighbors
               ELSE chart' = chart /\ axes' = axes /\ panicked' = TRUE
      [] display_mode = List ->
            /\ rows' = render_rows(converging)
            /\ chart' = chart /\ axes' = axes /\ panicked' = FALSE
      [] display_mode = Help ->
            /\ rows' = rows
            /\ chart' = chart /\ axes' = axes /\ panicked' = FALSE

\* Widget::render: the shared viewport capacity is read (try_read().unwrap()
\* aborts when a writer holds PAGE_SIZE) and, if the area height differs, written
\* under try_write, which is refused while anyone holds PAGE_SIZE; then the view
\* of the display mode is drawn.  render works on a copy of the tab and writes
\* none of its fields.
render ==
    /\ Ready
    /\ \E height \in Heights, converging \in SUBSET distance_rows :
        IF PAGE_SIZE_lock = Writing
        THEN Panic("render")
        ELSE /\ PAGE_SIZE' = render_page_size(height)
             /\ render_mode(converging)
             /\ last' = [Call("render", "none", <<>>, 0,
                              IF PAGE_SIZE # height /\ PAGE_SIZE_lock # Free
                              THEN 1 ELSE 0)
                         EXCEPT !.height = height]
             /\ UNCHANGED <<view, node_list, table_contents, prefs, page_size,
                            PREFERENCES, my_node_id, which_graph, details, shown,
                            locks>>

\* escape with the Help arm left out: the mode stays Help.
escape_mode_keeps_help(mode) ==
    CASE mode = List -> List
      [] mode = Detail -> List
      [] mode = Help -> Help

escape_mode(mode) ==
    CASE mode = List -> List
      [] mode = Detail -> List
      [] mode = Help -> List

\* escape answering Exiting from Help as it does from List.
escape_ret_exits_from_help(mode) ==
    CASE mode = List -> Exiting
      [] mode = Detail -> Running
      [] mode = Help -> Exiting

escape_ret(mode) ==
    CASE mode = List -> Exiting
      [] mode = Detail -> Running
      [] mode = Help -> Running

escape ==
    /\ Ready
    /\ display_mode' = escape_mode(display_mode)
    /\ last' = Call("escape", escape_ret(display_mode), <<>>, 0, 0)
    /\ UNCHANGED <<table_state, scrollbar_state, selected_node_id, data, panicked>>

\* table_contents[index], a Vec index: in bounds or a panic.
InBounds(index) == index >= 0 /\ index < Len(table_contents)

\* enter_key reading the first row whatever the selection is.
enter_key_id_first_row(index) == table_contents[1].id

\* self.table_contents[index].clone().id
enter_key_id(index) == table_contents[index + 1].id

\* enter_key opening the detail view from the list with no row selected.
enter_key_without_row ==
    /\ Ready
    /\ CASE display_mode = List ->
              /\ display_mode' = Detail
              /\ last' = Quiet("enter_key")
              /\ UNCHANGED <<table_state, scrollbar_state, selected_node_id, data,
                             panicked>>
         [] display_mode \in {Detail, Help} ->
              /\ display_mode' = List
              /\ last' = Quiet("enter_key")
              /\ UNCHANGED <<table_state, scrollbar_state, selected_node_id, data,
                             panicked>>

enter_key ==
    /\ Ready
    /\ CASE display_mode = List ->
              IF table_state # None
              THEN IF InBounds(table_state)
                   THEN /\ selected_node_id' = enter_key_id(table_state)
                        /\ display_mode' = Detail
                        /\ last' = Quiet("enter_key")
                        /\ UNCHANGED <<table_state, scrollbar_state, data, panicked>>
                   ELSE Panic("enter_key")
              ELSE /\ last' = Quiet("enter_key")
                   /\ UNCHANGED <<view, data, panicked>>
         [] display_mode \in {Detail, Help} ->
              /\ display_mode' = List
              /\ last' = Quiet("enter_key")
              /\ UNCHANGED <<table_state, scrollbar_state, selected_node_id, data,
                             panicked>>

\* The index prev_row selects, over a row set of length len.
prev_row_select(selected, len) ==
    IF selected # None
    THEN IF selected = 0 THEN SaturatingSub(len, 1) ELSE SaturatingSub(selected, 1)
    ELSE 0

\* prev_row without the test on the display mode.
prev_row_in_any_mode ==
    /\ Ready
    /\ LET i == prev_row_select(table_state, Len(table_contents))
       IN  table_state' = i /\ scrollbar_state' = i
    /\ last' = Quiet("prev_row")
    /\ UNCHANGED <<display_mode, selected_node_id, data, panicked>>

prev_row ==
    /\ Ready
    /\ IF display_mode = List
       THEN LET i == prev_row_select(table_state, Len(table_contents))
            IN  table_state' = i /\ scrollbar_state' = i
       ELSE UNCHANGED <<table_state, scrollbar_state>>
    /\ last' = Quiet("prev_row")
    /\ UNCHANGED <<display_mode, selected_node_id, data, panicked>>

\* next_row stopping at the last row instead of wrapping to the first.
next_row_select_no_wrap(selected, len) ==
    IF selected # None
    THEN IF selected >= SaturatingSub(len, 1)
         THEN SaturatingSub(len, 1)
         ELSE SaturatingAdd(selected, 1)
    ELSE 0

\* The index next_row selects, over a row set of length len.
next_row_select(selected, len) ==
    IF selected # None
    THEN IF selected >= SaturatingSub(len, 1) THEN 0 ELSE SaturatingAdd(selected, 1)
    ELSE 0

next_row ==
    /\ Ready
    /\ IF display_mode = List
       THEN LET i == next_row_select(table_state, Len(table_contents))
            IN  table_state' = i /\ scrollbar_state' = i
       ELSE UNCHANGED <<table_state, scrollbar_state>>
    /\ last' = Quiet("next_row")
    /\ UNCHANGED <<display_mode, selected_node_id, data, panicked>>

\* Whether next_page takes the branch that computes node_list.len() - 1.
next_page_clamps(selected, nodes, size) ==
    selected # None /\ selected >= SaturatingSub(nodes, size)

\* The index next_page selects when nodes - 1 does not overflow; nodes is the
\* length of the registry (node_list), not of the row set.
next_page_select(selected, nodes, size) ==
    IF selected # None
    THEN IF selected >= SaturatingSub(nodes, size)
         THEN nodes - 1
         ELSE SaturatingAdd(selected, size)
    ELSE 0

next_page ==
    /\ Ready
    /\ IF display_mode = List
       THEN IF next_page_clamps(table_state, Len(node_list), page_size)
               /\ Len(node_list) = 0
            THEN \* 0usize - 1: a panic where overflow is checked, a wrap where not
                 \/ Panic("next_page")
                 \/ /\ table_state' = USIZE_MAX
                    /\ last' = Quiet("next_page")
                    /\ UNCHANGED <<scrollbar_state, display_mode, selected_node_id,
                                   data, panicked>>
            ELSE /\ table_state' =
                        next_page_select(table_state, Len(node_list), page_size)
                 /\ last' = Quiet("next_page")
                 /\ UNCHANGED <<scrollbar_state, display_mode, selected_node_id,
                                data, panicked>>
       ELSE /\ last' = Quiet("next_page")
            /\ UNCHANGED <<view, data, panicked>>

\* The index prev_page selects.
prev_page_select(selected, size) ==
    IF selected # None
    THEN IF selected <= size THEN 0 ELSE SaturatingSub(selected, size)
    ELSE 0

prev_page ==
    /\ Ready
    /\ IF display_mode = List
       THEN table_state' = prev_page_select(table_state, page_size)
       ELSE UNCHANGED table_state
    /\ last' = Quiet("prev_page")
    /\ UNCHANGED <<scrollbar_state, display_mode, selected_node_id, data, panicked>>

\* PortNum::TracerouteApp
TracerouteApp == 70

\* The MeshPacket send_traceroute builds for destination `to`, with the fields of
\* its Decoded payload (Data) alongside.
MeshPacket(to) ==
    [from |-> 0, to |-> to, channel |-> 0, id |-> 0, rx_time |-> 0, rx_snr |-> 0,
     hop_limit |-> 0, want_ack |-> TRUE, priority |-> 0, rx_rssi |-> 0,
     delayed |-> 0, via_mqtt |-> TRUE, hop_start |-> 0,
     portnum |-> TracerouteApp, payload |-> <<>>, want_response |-> TRUE,
     dest |-> 0, source |-> 0, request_id |-> 0, reply_id |-> 0, emoji |-> 0]

\* send_traceroute; send_ok is the answer of util::send_to_radio.
send_traceroute(send_ok) ==
    IF table_state # None
    THEN IF InBounds(table_state)
         THEN LET to == table_contents[table_state + 1].id
              IN  /\ selected_node_id' = to
                  /\ last' = IF send_ok
                             THEN Call("send_traceroute", "none", <<MeshPacket(to)>>, 0, 1)
                             ELSE Call("send_traceroute", "none", <<MeshPacket(to)>>, 1, 0)
                  /\ UNCHANGED <<table_state, scrollbar_state, display_mode, data,
                                 panicked>>
         ELSE Panic("send_traceroute")
    ELSE /\ last' = Quiet("send_traceroute")
         /\ UNCHANGED <<view, data, panicked>>

\* The function keys the application passes on: F1, F2 and any other.
FunctionKeys == {1, 2, 3}

\* function_key with F1 ignored in the detail view.
function_key_no_help_in_detail ==
    /\ Ready
    /\ \E num \in FunctionKeys :
        CASE num = 1 -> /\ display_mode' = IF display_mode = Detail THEN Detail ELSE Help
                        /\ last' = Quiet("help")
                        /\ UNCHANGED <<table_state, scrollbar_state, selected_node_id,
                                       data, panicked>>
          [] num = 2 -> \E send_ok \in BOOLEAN : send_traceroute(send_ok)
          [] OTHER   -> /\ last' = Quiet("function_key")
                        /\ UNCHANGED <<view, data, panicked>>

function_key ==
    /\ Ready
    /\ \E num \in FunctionKeys :
        CASE num = 1 -> /\ display_mode' = Help
                        /\ last' = Quiet("help")
                        /\ UNCHANGED <<table_state, scrollbar_state, selected_node_id,
                                       data, panicked>>
          [] num = 2 -> \E send_ok \in BOOLEAN : send_traceroute(send_ok)
          [] OTHER   -> /\ last' = Quiet("function_key")
                        /\ UNCHANGED <<view, data, panicked>>

Next ==
    \/ Upsert
    \/ run
    \/ render
    \/ escape
    \/ enter_key
    \/ prev_row
    \/ next_row
    \/ next_page
    \/ prev_page
    \/ function_key

Spec == Init /\ [][Next]_vars

\* The way into the detail view and its render cycles, over a registry whose
\* records may lack an identity payload and may list neighbors.
NextDetail ==
    \/ Upsert
    \/ Heard
    \/ NeighborInfo
    \/ run
    \/ render
    \/ next_row
    \/ enter_key

SpecDetail == Init /\ [][NextDetail]_vars

\* The three display modes and the graph cycle under the left and right keys,
\* over a registry of one record.
NextTabs ==
    \/ FirstUpsert
    \/ run
    \/ next_row
    \/ enter_key
    \/ escape
    \/ function_key
    \/ prev_tab
    \/ next_tab

SpecTabs == Init /\ [][NextTabs]_vars

\* The first record of the registry and the telemetry stores as packet ingestion
\* fills them.
NextStore ==
    \/ FirstUpsert
    \/ Telemetry

SpecStore == Init /\ [][NextStore]_vars

\* The run and render cycles, in the list and in the detail view, while other
\* tasks hold the shared cells.
NextLocks ==
    \/ PAGE_SIZE_contention
    \/ PREFERENCES_contention
    \/ Upsert
    \/ run
    \/ run_resumed
    \/ render
    \/ next_row
    \/ enter_key

SpecLocks == Init /\ [][NextLocks]_vars

\* The samples a telemetry packet captured at time t may carry.
Samples(t) ==
    {TimeSeriesData(t, r[1], r[2]) :
        r \in {r \in ReportedMetrics \X Readings : r[1] = "Battery" => r[2] >= 0}}

\* The telemetry stores of up to MAX_MSG_RETENTION samples, captured at times
\* 1, 2, ...
Stores ==
    UNION {{s \in [1..n -> UNION {Samples(t) : t \in 1..n}] :
                \A i \in 1..n : s[i].timestamp = i} : n \in 0..MAX_MSG_RETENTION}

\* make_graph as a function of the store and the graph: the detail of the local
\* node is open (its record was upserted, run() projected it, next_row selected
\* it and enter_key opened it), its store and the graph are any of the above.
InitGraph ==
    /\ node_list = <<ComprehensiveNode(1, 0, FALSE)>>
    /\ table_state = 0
    /\ table_contents = node_list
    /\ scrollbar_state = 0
    /\ PREFERENCES \in [initialized : {TRUE}, show_mqtt : BOOLEAN]
    /\ prefs = PREFERENCES
    /\ display_mode = Detail
    /\ selected_node_id = 1
    /\ page_size = 0
    /\ PAGE_SIZE = 0
    /\ my_node_id = 1
    /\ which_graph \in Metrics
    /\ node_info_user = {1}
    /\ neighbors = [id \in NodeIds |-> <<>>]
    /\ \E s \in Stores : timeseries = [id \in NodeIds |-> IF id = 1 THEN s ELSE <<>>]
    /\ inserted = timeseries
    /\ chart = <<>>
    /\ axes = NoAxes
    /\ rows = <<>>
    /\ position = [id \in NodeIds |-> <<>>]
    /\ last_heard = [id \in NodeIds |-> 0]
    /\ get_secs = [k \in 1..MaxNodes |-> 0]
    /\ PAGE_SIZE_lock = Free
    /\ PREFERENCES_lock = Free
    /\ blocked = FALSE
    /\ panicked = FALSE
    /\ last = IF timeseries[1] # <<>> THEN Quiet("telemetry")
              ELSE [Call("next_tab", "Nodes", <<>>, 0, 0)
                    EXCEPT !.tab = "Nodes", !.graph = DisplayedGraph_prev(which_graph)]

NextGraph == render

\* The registries of up to MaxNodes records, in any iteration order, with any
\* last_seen and bridge-relay flag each.
Registries ==
    LET Records == {ComprehensiveNode(id, t, m) :
                        id \in NodeIds, t \in 0..MaxStamp, m \in BOOLEAN}
    IN  UNION {{s \in [1..n -> Records] :
                    \A i, j \in 1..n : i # j => s[i].id # s[j].id} :
               n \in 0..MaxNodes}

\* run() as a function of the registry and the preferences: the tab as it is
\* constructed, over any registry.
InitProject ==
    /\ node_list \in Registries
    /\ table_state = None
    /\ table_contents = <<>>
    /\ scrollbar_state = 0
    /\ prefs = DefaultPreferences
    /\ display_mode = List
    /\ selected_node_id = 0
    /\ page_size = 0
    /\ PAGE_SIZE = 0
    /\ PREFERENCES \in [initialized : {TRUE}, show_mqtt : BOOLEAN]
    /\ my_node_id = 1
    /\ which_graph = "Battery"
    /\ node_info_user = Ids(node_list)
    /\ neighbors = [id \in NodeIds |-> <<>>]
    /\ timeseries = [id \in NodeIds |-> <<>>]
    /\ inserted = [id \in NodeIds |-> <<>>]
    /\ chart = <<>>
    /\ axes = NoAxes
    /\ rows = <<>>
    /\ position = [id \in NodeIds |-> <<>>]
    /\ last_heard = [id \in NodeIds |-> 0]
    /\ get_secs = [k \in 1..MaxNodes |-> 0]
    /\ PAGE_SIZE_lock = Free
    /\ PREFERENCES_lock = Free
    /\ blocked = FALSE
    /\ panicked = FALSE
    /\ last = Quiet(IF node_list = <<>> THEN "new" ELSE "upsert")

NextProject == run

\* What node_info.position may be: absent, or any pair of coordinates.
Positions ==
    {<<>>} \cup {<<[latitude_i |-> a, longitude_i |-> o]>> :
                    a \in 0..MaxCoord, o \in 0..MaxCoord}

\* What the clock may answer during one pass: it never runs backwards.
Clocks ==
    {c \in [1..MaxNodes -> 0..(MaxStamp + 1)] :
        \A j, k \in 1..MaxNodes : j <= k => c[j] <= c[k]}

\* The rows of the List view as a function of the records, the positions and
\* the clock: every node has been heard directly, run() has projected the
\* registry, and the timestamps, the positions and the clock are any of the
\* above.
InitRows ==
    /\ \E seen \in [NodeIds -> 0..MaxStamp] :
            node_list = [i \in 1..MaxNodes |-> ComprehensiveNode(i, seen[i], FALSE)]
    /\ table_state = None
    /\ PREFERENCES \in [initialized : {TRUE}, show_mqtt : {FALSE}]
    /\ prefs = PREFERENCES
    /\ table_contents = Project(node_list, prefs)
    /\ scrollbar_state = 0
    /\ display_mode = List
    /\ selected_node_id = 0
    /\ page_size = 0
    /\ PAGE_SIZE = 0
    /\ my_node_id = 1
    /\ which_graph = "Battery"
    /\ node_info_user = NodeIds
    /\ neighbors = [id \in NodeIds |-> <<>>]
    /\ timeseries = [id \in NodeIds |-> <<>>]
    /\ inserted = [id \in NodeIds |-> <<>>]
    /\ chart = <<>>
    /\ axes = NoAxes
    /\ rows = <<>>
    /\ position \in [NodeIds -> Positions]
    /\ last_heard \in [NodeIds -> 0..MaxStamp]
    /\ get_secs \in Clocks
    /\ PAGE_SIZE_lock = Free
    /\ PREFERENCES_lock = Free
    /\ blocked = FALSE
    /\ panicked = FALSE
    /\ last = Quiet("run")

NextRows == render

SpecRows == InitRows /\ [][NextRows]_vars

SpecProject == InitProject /\ [][NextProject]_vars

SpecGraph == InitGraph /\ [][NextGraph]_vars

\* =================================================================== claims
KeyOps == {"escape", "enter_key", "prev_row", "next_row", "next_page", "prev_page",
           "help", "send_traceroute", "function_key"}

\* The valid indexes of the current row set.
RowIndexes == 0..(Len(table_contents) - 1)

\* C1: the display mode starts as List; enter_key in List mode with selected row
\* index i moves to Detail and sets selected_node_id to the id of row i of
\* table_contents; with no selected row the mode stays List and selected_node_id
\* stays what it was.
C1_EnterKeyFromList ==
    /\ last.op = "new" => display_mode = List
    /\ (last.op = "enter_key" /\ last.mode = List) =>
          /\ last.selected \in RowIndexes =>
                /\ ~panicked
                /\ display_mode = Detail
                /\ selected_node_id = table_contents[last.selected + 1].id
          /\ last.selected = None =>
                /\ ~panicked
                /\ display_mode = List
                /\ selected_node_id = last.node_id

\* enter_key has just opened the detail of the second row, whose id differs from
\* the first row's.
C1_Witness ==
    /\ last.op = "enter_key" /\ last.mode = List /\ last.selected = 1
    /\ display_mode = Detail
    /\ Len(table_contents) >= 2
    /\ selected_node_id = table_contents[2].id
    /\ selected_node_id # table_contents[1].id

\* C2: from Detail and from Help, enter_key and escape both set the display mode
\* to List (no other mode), and escape returns Mode::Running.
C2_LeaveDetailAndHelp ==
    (last.op \in {"enter_key", "escape"} /\ last.mode \in {Detail, Help}) =>
        /\ ~panicked
        /\ display_mode = List
        /\ last.op = "escape" => last.ret = Running

\* escape has just left Help.
C2_Witness ==
    /\ last.op = "escape" /\ last.mode = Help
    /\ display_mode = List /\ last.ret = Running

\* C3: escape returns Mode::Exiting if and only if the display mode was List when
\* it was called, and then the display mode, the selection and selected_node_id
\* are what they were.
C3_EscapeExitsOnlyFromList ==
    last.op = "escape" =>
        /\ last.ret = Exiting <=> last.mode = List
        /\ last.ret = Exiting =>
              /\ display_mode = last.mode
              /\ table_state = last.selected
              /\ selected_node_id = last.node_id

\* escape has just returned Exiting from the list, with a row selected and a node
\* id captured earlier.
C3_Witness ==
    /\ last.op = "escape" /\ last.ret = Exiting
    /\ display_mode = List /\ table_state # None /\ selected_node_id # 0

\* C4: the probe key in Detail mode sends the traceroute request to the node whose
\* detail is displayed (selected_node_id as it was when the key was pressed),
\* whatever registry updates and run/render cycles came in between.
C4_ProbeGoesToDisplayedNode ==
    (last.op = "send_traceroute" /\ last.mode = Detail /\ last.handed # <<>>) =>
        last.handed[1].to = last.node_id

\* C5: when the submission of the probe request fails, the registry, the display
\* mode, the selection and selected_node_id are what they were before the key
\* was pressed, one error is logged and the request is handed over once.
C5_FailedProbeChangesNothing ==
    [][(last'.op = "send_traceroute" /\ last'.errors > 0) =>
          /\ node_list' = node_list
          /\ display_mode' = display_mode
          /\ table_state' = table_state
          /\ selected_node_id' = selected_node_id
          /\ last'.errors = 1
          /\ Len(last'.handed) = 1]_vars

\* C6: each press of the probe key in Detail mode hands exactly one request to
\* the outbound channel and leaves the display mode Detail.
C6_EachProbeHandsOneRequest ==
    (last.op = "send_traceroute" /\ last.mode = Detail) =>
        /\ Len(last.handed) = 1
        /\ display_mode = Detail

\* C7: the probe request for node d has destination d, asks for an acknowledgment
\* and a response, has an empty payload, and has every other field (sender,
\* channel, packet id, priority, hop limit, request and reply ids, relay flag) at
\* its zero or false value.
C7_ProbeRequestFields ==
    (last.op = "send_traceroute" /\ last.handed # <<>>) =>
        LET p == last.handed[1]
        IN  /\ p.to = selected_node_id
            /\ p.want_ack /\ p.want_response /\ p.payload = <<>>
            /\ p.from = 0 /\ p.channel = 0 /\ p.id = 0 /\ p.priority = 0
            /\ p.hop_limit = 0 /\ p.request_id = 0 /\ p.reply_id = 0
            /\ p.dest = 0 /\ p.source = 0
            /\ ~p.via_mqtt

\* i moved by d rows and clamped to the indexes of a row set of length len.
Clamped(i, d, len) ==
    IF i + d < 0 THEN 0 ELSE IF i + d > len - 1 THEN len - 1 ELSE i + d

\* C8: next_page and prev_page in List mode move the selected index i by the page
\* size and clamp it to [0, rows - 1] of the current filtered row set.  Stated
\* for a row set that is the projection of the registry as it stands (no update
\* is pending), under either setting of the bridge-relay filter.
C8_PagingClampsToRows ==
    (/\ last.op \in {"next_page", "prev_page"}
     /\ last.mode = List
     /\ last.selected \in RowIndexes
     /\ table_contents = Project(node_list, prefs)) =>
        table_state =
            Clamped(last.selected,
                    IF last.op = "next_page" THEN page_size ELSE 0 - page_size,
                    Len(table_contents))

\* C9: in List mode over a non-empty row set of length n, next_row selects 0 from
\* index n - 1 and i + 1 from any other index i; prev_row selects n - 1 from
\* index 0 and i - 1 from any other index i.
C9_RowStepsWrap ==
    LET n == Len(table_contents)
        i == last.selected
    IN  (last.mode = List /\ n > 0 /\ i \in RowIndexes) =>
            /\ last.op = "next_row" =>
                  table_state = IF i = n - 1 THEN 0 ELSE i + 1
            /\ last.op = "prev_row" =>
                  table_state = IF i = 0 THEN n - 1 ELSE i - 1

\* next_row has just wrapped from the last of at least two rows to the first.
C9_Witness ==
    /\ last.op = "next_row" /\ last.mode = List
    /\ Len(table_contents) >= 2
    /\ last.selected = Len(table_contents) - 1
    /\ table_state = 0

\* C10: no key handler aborts, whatever the selection, the row set and the
\* registry are.
C10_NoKeyHandlerAborts ==
    last.op \in KeyOps => ~panicked
\* C11: a render cycle in Detail mode never aborts, whether or not the registry
\* has the local node's record, the selected node's record, a record for every
\* listed neighbor and an identity payload in every neighbor's record.
C11_DetailRenderNeverAborts ==
    (last.op = "render" /\ last.mode = Detail) => ~panicked
\* The samples of the displayed node's store as (timestamp, reading) pairs for
\* the graph g, in the order of the store.
Pairs(g) ==
    LET s == timeseries[selected_node_id]
    IN  [i \in 1..Len(s) |-> <<s[i].timestamp, s[i].reading[g]>>]

NonZero(pair) == pair[2] # 0

\* C12: the series make_graph extracts for the active metric is exactly the
\* (timestamp, value) pairs of the store, in capture order, whose value is not
\* zero, whatever the sign of the value.
C12_SeriesKeepsNonZero ==
    (last.op = "render" /\ last.mode = Detail /\ ~panicked) =>
        chart = SelectSeq(Pairs(last.graph), NonZero)
\* C13: after run() the row set is non-increasing by last_seen, and strictly
\* descending when the last_seen values of the registry's records are pairwise
\* distinct.
C13_RowsDescendByLastSeen ==
    last.op = "run" =>
        LET n == Len(table_contents)
            distinct == \A i, j \in 1..Len(node_list) :
                            i # j => node_list[i].last_seen # node_list[j].last_seen
        IN  \A i, j \in 1..n :
                i < j =>
                    /\ table_contents[i].last_seen >= table_contents[j].last_seen
                    /\ distinct =>
                          table_contents[i].last_seen > table_contents[j].last_seen

\* run() has put two rows in descending order that the registry holds the other
\* way round.
C13_Witness ==
    /\ last.op = "run"
    /\ Len(table_contents) = 2 /\ Len(node_list) = 2
    /\ table_contents[1].last_seen > table_contents[2].last_seen
    /\ node_list[1].last_seen < node_list[2].last_seen

\* The rows of the row set, and the records of the registry that are not flagged
\* bridge-relayed.
Rows == {table_contents[i] : i \in 1..Len(table_contents)}
Unflagged == {i \in 1..Len(node_list) : ~node_list[i].via_mqtt}

\* C14: after run() with the bridge-relay preference disabled the row set holds
\* exactly the registry's records that are not flagged bridge-relayed, each once
\* (total - k rows when k records are flagged); with the preference enabled it
\* holds every record of the registry once.
C14_RowsAreTheUnflaggedRecords ==
    last.op = "run" =>
        IF ~prefs.show_mqtt
        THEN /\ Rows = {node_list[i] : i \in Unflagged}
             /\ Len(table_contents) =
                    Len(node_list) - Cardinality((1..Len(node_list)) \ Unflagged)
             /\ Cardinality(Rows) = Len(table_contents)
        ELSE /\ Rows = {node_list[i] : i \in 1..Len(node_list)}
             /\ Len(table_contents) = Len(node_list)
             /\ Cardinality(Rows) = Len(table_contents)

\* run() has dropped the one flagged record of a registry of two.
C14_Witness ==
    /\ last.op = "run" /\ ~prefs.show_mqtt
    /\ Len(node_list) = 2 /\ Len(table_contents) = 1
    /\ \E i \in 1..2 : node_list[i].via_mqtt
\* The place of a metric in the ten-metric cycle, and the metric d places on.
GraphIndex(g) == CHOOSE i \in 1..Len(DisplayedGraph) : DisplayedGraph[i] = g
GraphAfter(g, d) ==
    DisplayedGraph[((GraphIndex(g) - 1 + d) % Len(DisplayedGraph)) + 1]

\* C15: in Detail mode prev_tab and next_tab move which_graph one step back and
\* one step on in the ten-metric cycle and return the application tab they were
\* given; in List and Help mode they return the previous and the next
\* application tab and leave which_graph alone.  In every mode the row selection
\* and selected_node_id stay what they were.
C15_TabKeysCycleGraphInDetail ==
    last.op \in {"prev_tab", "next_tab"} =>
        /\ ~panicked
        /\ table_state = last.selected
        /\ selected_node_id = last.node_id
        /\ display_mode = last.mode
        /\ IF last.mode = Detail
           THEN /\ last.ret = last.tab
                /\ which_graph =
                      GraphAfter(last.graph, IF last.op = "next_tab" THEN 1
                                             ELSE Len(DisplayedGraph) - 1)
           ELSE /\ which_graph = last.graph
                /\ last.ret = IF last.op = "next_tab" THEN MenuTabs_next(last.tab)
                              ELSE MenuTabs_prev(last.tab)

\* prev_tab in Detail mode has just wrapped the graph from Battery back to
\* GasResistance, with a row selected.
C15_Witness ==
    /\ last.op = "prev_tab" /\ last.mode = Detail
    /\ last.graph = "Battery" /\ which_graph = "GasResistance"
    /\ last.ret = last.tab
    /\ table_state # None /\ selected_node_id # 0

RECURSIVE NextTimes(_, _)
\* DisplayedGraph::next applied n times.
NextTimes(g, n) == IF n = 0 THEN g ELSE DisplayedGraph_next(NextTimes(g, n - 1))

RECURSIVE PrevTimes(_, _)
\* DisplayedGraph::prev applied n times.
PrevTimes(g, n) == IF n = 0 THEN g ELSE DisplayedGraph_prev(PrevTimes(g, n - 1))

\* C16: for the metric m the chart shows, whichever of the ten it is, next
\* applied ten times to m gives m, prev applied ten times to m gives m, and one
\* to nine applications of either never give m.
C16_TenStepsAroundTheCycle ==
    LET m == which_graph
    IN  /\ m \in Metrics
        /\ Cardinality(Metrics) = 10
        /\ NextTimes(m, 10) = m
        /\ PrevTimes(m, 10) = m
        /\ \A k \in 1..9 : NextTimes(m, k) # m /\ PrevTimes(m, k) # m

\* next_tab in Detail mode has just wrapped the graph from GasResistance to
\* Battery.
C16_Witness ==
    /\ last.op = "next_tab" /\ last.mode = Detail
    /\ last.graph = "GasResistance" /\ which_graph = "Battery"
\* The last n elements of s (all of s if it has fewer).
Latest(s, n) == SubSeq(s, IF Len(s) > n THEN Len(s) - n + 1 ELSE 1, Len(s))

\* C17: a node's telemetry store never holds more than MAX_MSG_RETENTION
\* samples; it holds the MAX_MSG_RETENTION most recently inserted samples (all of
\* them while there are fewer), oldest first, so that an insertion into a full
\* store drops exactly the oldest sample.
C17_StoreKeepsTheLatest ==
    \A id \in NodeIds :
        /\ Len(timeseries[id]) <= MAX_MSG_RETENTION
        /\ timeseries[id] = Latest(inserted[id], MAX_MSG_RETENTION)

\* A sample has just gone into a full store: the store is still full, its oldest
\* sample is gone and the new one is its last.
C17_Witness ==
    /\ last.op = "telemetry"
    /\ Len(inserted[1]) > MAX_MSG_RETENTION
    /\ Len(timeseries[1]) = MAX_MSG_RETENTION
    /\ timeseries[1][1] = inserted[1][Len(inserted[1]) - MAX_MSG_RETENTION + 1]
    /\ timeseries[1][1] # inserted[1][1]
    /\ timeseries[1][MAX_MSG_RETENTION] = inserted[1][Len(inserted[1])]
\* The index a page navigation reaches from index i with jumps of d rows:
\* prev_page stops at 0, next_page at the registry's last index.
Paged(op, i, d) ==
    IF op = "prev_page"
    THEN IF i <= d THEN 0 ELSE i - d
    ELSE IF i + d >= Len(node_list) THEN Len(node_list) - 1 ELSE i + d

\* C18, as claimed: once render has recorded the area height in the shared
\* viewport capacity, a page navigation jumps by the recorded capacity, whether
\* or not run() was called in between.
C18_PagingUsesRecordedCapacity ==
    (/\ last.op \in {"next_page", "prev_page"}
     /\ last.mode = List
     /\ last.selected \in RowIndexes) =>
        table_state = Paged(last.op, last.selected, PAGE_SIZE)

\* C18, amended: a page navigation jumps by the tab's page_size, and run()
\* leaves page_size equal to the recorded capacity; so the height render
\* recorded is the jump of a navigation once run() has been called after that
\* render pass.
C18_PagingUsesCapacityCopiedByRun ==
    /\ (/\ last.op \in {"next_page", "prev_page"}
        /\ last.mode = List
        /\ last.selected \in RowIndexes) =>
           table_state = Paged(last.op, last.selected, page_size)
    /\ (last.op = "run" /\ ~blocked /\ ~panicked) => page_size = PAGE_SIZE

\* prev_page has just jumped one row back, by the height 1 which render recorded
\* and run() copied.
C18_Witness ==
    /\ last.op = "prev_page" /\ last.mode = List
    /\ last.selected = 1 /\ table_state = 0
    /\ page_size = 1 /\ PAGE_SIZE = 1
\* C19: contention on PREFERENCES or PAGE_SIZE never aborts and never blocks a
\* run or render cycle.
C19_ContentionNeverAbortsOrBlocks ==
    last.op \in {"run", "render"} => ~panicked /\ ~blocked

\* C20: in render, when the area height differs from the recorded capacity and
\* the write acquisition fails (one info line is logged), the recorded capacity
\* is what it was and the render pass completes; when the acquisition succeeds
\* the recorded capacity is the area height; when the height equals the
\* recorded capacity nothing is written and nothing is logged.
C20_CapacityReconciliation ==
    (last.op = "render" /\ last.height # None) =>
        IF last.height # last.capacity
        THEN IF last.infos > 0
             THEN PAGE_SIZE = last.capacity /\ ~panicked
             ELSE PAGE_SIZE = last.height
        ELSE PAGE_SIZE = last.capacity /\ last.infos = 0
\* A position that is known: present and not the all-zero default.
Known(p) == p # <<>> /\ p[1] # DefaultPosition

\* C21: the distance field of a row is non-blank only when both the local
\* node's position and the row's position are known; it is blank whenever one
\* of the two is absent or zero.
C21_DistanceNeedsBothPositions ==
    (last.op = "render" /\ last.mode = List) =>
        \A k \in 1..Len(rows) :
            rows[k].distance # <<>> =>
                /\ Registered(my_node_id) /\ Known(position[my_node_id])
                /\ Known(position[rows[k].id])

\* C22: each elapsed-time field of a row is Unknown when its timestamp is zero
\* or equal to now and is now - timestamp when 0 < timestamp < now, and all the
\* rows of one pass use the same now.
C22_ElapsedSinceOneNow ==
    (last.op = "render" /\ last.mode = List) =>
        \E now \in 0..(MaxStamp + 1) :
            \A k \in 1..Len(rows) :
                LET Elapsed(t) == IF t = 0 \/ t = now THEN Unknown
                                  ELSE IF t < now THEN now - t
                                  ELSE Unknown
                    cn == table_contents[k]
                IN  /\ rows[k].now_secs = now
                    /\ rows[k].ni_lastheard_since = Elapsed(last_heard[cn.id])
                    /\ rows[k].lastupdate_since = Elapsed(cn.last_seen)
C24_RowAndPageKeysOnlyInList ==
    [][(/\ last'.op \in {"prev_row", "next_row", "next_page", "prev_page"}
        /\ display_mode \in {Detail, Help})
       => UNCHANGED <<table_state, scrollbar_state, display_mode, selected_node_id>>]_vars

\* prev_row has just been pressed in the detail view opened from the second of
\* two rows, where in the list it would have moved the selection up.
C24_Witness ==
    /\ last.op = "prev_row" /\ last.mode = Detail /\ display_mode = Detail
    /\ last.selected = 1 /\ table_state = 1 /\ scrollbar_state = 1
    /\ Len(table_contents) >= 2
\* C25: whenever the display mode is Detail, selected_node_id is the key of a
\* record of the registry, whatever key events, registry upserts and run()
\* cycles came before.
C25_DetailShowsARegisteredNode ==
    display_mode = Detail => Registered(selected_node_id)

\* The detail of node 2 is open, after a registry update and a run() cycle took
\* its row out of the row set.
C25_Witness ==
    /\ display_mode = Detail /\ selected_node_id = 2
    /\ last.op = "run"
    /\ \A k \in 1..Len(table_contents) : table_contents[k].id # 2
\* C26: function key 1 sets the display mode to Help from every mode, Detail
\* included, and changes nothing else; enter_key and escape pressed in Help mode
\* set the mode to List, never Detail; a function key other than 1 and 2 changes
\* nothing.
C26_HelpFromAnywhereBackToList ==
    [][/\ last'.op = "help" =>
             /\ display_mode' = Help
             /\ UNCHANGED <<table_state, scrollbar_state, selected_node_id>>
       /\ (last'.op \in {"enter_key", "escape"} /\ display_mode = Help) =>
             display_mode' = List
       /\ last'.op = "function_key" => UNCHANGED <<view, data, panicked>>]_vars

\* Help has just been opened over the detail view of a node.
C26_Witness ==
    /\ last.op = "help" /\ last.mode = Detail /\ display_mode = Help
    /\ selected_node_id # 0

\* C27: with no row selected the probe key hands nothing to the outbound channel
\* and changes no state; with a row selected it hands over one request, in List
\* and in Help mode as in Detail.
C27_ProbeNeedsOnlyASelection ==
    last.op = "send_traceroute" =>
        /\ last.selected = None =>
              /\ last.handed = <<>>
              /\ table_state = None
              /\ display_mode = last.mode
              /\ selected_node_id = last.node_id
        /\ last.selected # None => Len(last.handed) = 1
\* C28: next and prev of the graph selector are inverse to each other on the
\* ten metrics: prev(next(m)) = m and next(prev(m)) = m, for the metric m the
\* detail view shows and for the metric a tab key has just moved it from.
C28_NextAndPrevAreInverse ==
    /\ DisplayedGraph_prev(DisplayedGraph_next(which_graph)) = which_graph
    /\ DisplayedGraph_next(DisplayedGraph_prev(which_graph)) = which_graph
    /\ (last.op = "next_tab" /\ last.mode = Detail) =>
          DisplayedGraph_prev(which_graph) = last.graph
    /\ (last.op = "prev_tab" /\ last.mode = Detail) =>
          DisplayedGraph_next(which_graph) = last.graph

\* next_tab has just moved the graph from the last metric round to the first.
C28_Witness ==
    /\ last.op = "next_tab" /\ last.mode = Detail
    /\ last.graph = "GasResistance" /\ which_graph = "Battery"
====
